---- MODULE Spec2Model ----
(***************************************************************************)
(* Job orchestration of the Universal File Converter API: the HTTP         *)
(* handlers of main.py (POST /convert, DELETE /jobs/{id}, the sweeper),    *)
(* the background task perform_conversion, ConversionService.convert_file  *)
(* and the fallback chains of the converters it dispatches to.             *)
(*                                                                         *)
(* Python values: None is the string "None"; a key that is absent from a   *)
(* job dict (conversion_method, warning) is modelled as None, since the    *)
(* only readers are job.get(...), which maps an absent key to None.        *)
(* A file name is a sequence of one-character strings.  A path is a record *)
(* [dir, name].  hashlib.sha256 is modelled as collision free.             *)
(* A handler is modelled from its first statement: the API-key dependency  *)
(* of the routes (get_api_key) is not part of the model.                   *)
(***************************************************************************)
EXTENDS Integers, Sequences, FiniteSets, TLC

\* ------------------------------------------------------------------ bounds
\* number of uuid4 job ids handed out in one run of the service as it stands
MaxJobs == 2
\* number of uuid4 job ids handed out in one run with the converters reachable
MaxChainJobs == 1
\* number of uuid4 job ids handed out in one run of the upload cache alone
MaxDedupJobs == 3
\* POST /convert requests accepted in SpecSweep
MaxSweepJobs == 2
\* POST /convert requests accepted in SpecApi
MaxApiJobs == 1
\* requests of the thread-pool runs: one more than the pool has workers
MaxPoolJobs == 5
\* largest number of pages / blocks of an input document
MaxPages == 2

\* ------------------------------------------------------- program constants
MAX_FILE_SIZE_MB == 100
MAX_FILE_SIZE_BYTES == MAX_FILE_SIZE_MB * 1024 * 1024
\* ThreadPoolExecutor(max_workers=4)
max_workers == 4

None == "None"
UPLOAD_DIR == "uploads"
CONVERTED_DIR == "converted"

\* ---------------------------------------------------------- static tables
converter_map_items ==
  << <<"PDF", "DOCX", "_pdf_to_docx">>, <<"PDF", "DOC", "_pdf_to_doc">>, <<"PDF", "TXT", "_pdf_to_txt">>,
     <<"PDF", "HTML", "_pdf_to_html">>, <<"PDF", "JPG", "_pdf_to_image">>, <<"PDF", "PNG", "_pdf_to_image">>,
     <<"PDF", "XLSX", "_pdf_to_xlsx">>, <<"PDF", "CSV", "_pdf_to_csv">>, <<"PDF", "XLS", "_pdf_to_xls">>,
     <<"PDF", "PPTX", "_pdf_to_pptx">>, <<"PDF", "TIFF", "_pdf_to_image">>, <<"PDF", "GIF", "_pdf_to_image">>,
     <<"PDF", "PPT", "_pdf_to_pptx">>, <<"PDF", "XML", "_pdf_to_xml">>, <<"PDF", "EPUB", "_pdf_to_epub">>,
     <<"PDF", "MOBI", "_pdf_to_mobi">>, <<"DOCX", "PDF", "_docx_to_pdf">>, <<"DOCX", "TXT", "_docx_to_txt">>,
     <<"DOCX", "HTML", "_docx_to_html">>, <<"DOCX", "RTF", "_docx_to_rtf">>, <<"DOCX", "JPG", "_docx_to_image">>,
     <<"DOCX", "PNG", "_docx_to_image">>, <<"DOCX", "ODT", "_docx_to_odt">>, <<"DOCX", "XML", "_docx_to_xml">>,
     <<"DOCX", "EPUB", "_docx_to_epub">>, <<"DOCX", "MOBI", "_docx_to_mobi">>, <<"DOC", "PDF", "_doc_to_pdf">>,
     <<"DOC", "TXT", "_doc_to_txt">>, <<"DOC", "HTML", "_doc_to_html">>, <<"XLSX", "CSV", "_xlsx_to_csv">>,
     <<"XLSX", "PDF", "_xlsx_to_pdf">>, <<"XLSX", "HTML", "_xlsx_to_html">>, <<"XLSX", "JSON", "_xlsx_to_json">>,
     <<"XLSX", "XML", "_xlsx_to_xml">>, <<"XLSX", "ODS", "_xlsx_to_ods">>, <<"XLSX", "TXT", "_xlsx_to_txt">>,
     <<"XLS", "CSV", "_xls_to_csv">>, <<"XLS", "PDF", "_xls_to_pdf">>, <<"XLS", "XLSX", "_xls_to_xlsx">>,
     <<"JPG", "PNG", "_image_convert">>, <<"JPG", "PDF", "_image_to_pdf">>, <<"JPG", "BMP", "_image_convert">>,
     <<"JPG", "GIF", "_image_convert">>, <<"JPG", "TIFF", "_image_convert">>, <<"JPG", "WEBP", "_image_convert">>,
     <<"JPG", "ICO", "_image_convert">>, <<"JPG", "DOCX", "_image_to_docx">>, <<"JPG", "DOC", "_image_to_doc">>,
     <<"JPG", "XLSX", "_image_to_xlsx">>, <<"JPG", "PPTX", "_image_to_pptx">>, <<"JPG", "TXT", "_image_to_txt">>,
     <<"PNG", "JPG", "_image_convert">>, <<"PNG", "PDF", "_image_to_pdf">>, <<"PNG", "BMP", "_image_convert">>,
     <<"PNG", "GIF", "_image_convert">>, <<"PNG", "TIFF", "_image_convert">>, <<"PNG", "WEBP", "_image_convert">>,
     <<"PNG", "ICO", "_image_convert">>, <<"PNG", "DOCX", "_image_to_docx">>, <<"PNG", "DOC", "_image_to_doc">>,
     <<"PNG", "XLSX", "_image_to_xlsx">>, <<"PNG", "PPTX", "_image_to_pptx">>, <<"PNG", "TXT", "_image_to_txt">>,
     <<"PNG", "SVG", "_image_to_svg">>, <<"BMP", "JPG", "_image_convert">>, <<"BMP", "PNG", "_image_convert">>,
     <<"BMP", "PDF", "_image_to_pdf">>, <<"BMP", "ICO", "_image_convert">>, <<"BMP", "DOCX", "_image_to_docx">>,
     <<"BMP", "DOC", "_image_to_doc">>, <<"BMP", "TXT", "_image_to_txt">>, <<"GIF", "JPG", "_image_convert">>,
     <<"GIF", "PNG", "_image_convert">>, <<"GIF", "PDF", "_image_to_pdf">>, <<"GIF", "ICO", "_image_convert">>,
     <<"GIF", "DOCX", "_image_to_docx">>, <<"GIF", "DOC", "_image_to_doc">>, <<"TIFF", "JPG", "_image_convert">>,
     <<"TIFF", "PNG", "_image_convert">>, <<"TIFF", "PDF", "_image_to_pdf">>, <<"TIFF", "ICO", "_image_convert">>,
     <<"TIFF", "DOCX", "_image_to_docx">>, <<"TIFF", "DOC", "_image_to_doc">>, <<"TIFF", "TXT", "_image_to_txt">>,
     <<"WEBP", "JPG", "_image_convert">>, <<"WEBP", "PNG", "_image_convert">>, <<"WEBP", "PDF", "_image_to_pdf">>,
     <<"WEBP", "ICO", "_image_convert">>, <<"WEBP", "DOCX", "_image_to_docx">>, <<"WEBP", "DOC", "_image_to_doc">>,
     <<"WEBP", "TXT", "_image_to_txt">>, <<"SVG", "PNG", "_svg_to_image">>, <<"SVG", "JPG", "_svg_to_image">>,
     <<"SVG", "PDF", "_svg_to_pdf">>, <<"TXT", "PDF", "_txt_to_pdf">>, <<"TXT", "DOCX", "_txt_to_docx">>,
     <<"TXT", "HTML", "_txt_to_html">>, <<"TXT", "CSV", "_txt_to_csv">>, <<"TXT", "JSON", "_txt_to_json">>,
     <<"HTML", "PDF", "_html_to_pdf">>, <<"HTML", "DOCX", "_html_to_docx">>, <<"HTML", "TXT", "_html_to_txt">>,
     <<"HTML", "JPG", "_html_to_image">>, <<"HTML", "PNG", "_html_to_image">>, <<"HTML", "DOC", "_html_to_doc">>,
     <<"HTML", "EPUB", "_html_to_epub">>, <<"HTML", "MOBI", "_html_to_mobi">>, <<"EPUB", "MOBI", "_epub_to_mobi">>,
     <<"CSV", "XLSX", "_csv_to_xlsx">>, <<"CSV", "JSON", "_csv_to_json">>, <<"CSV", "XML", "_csv_to_xml">>,
     <<"CSV", "HTML", "_csv_to_html">>, <<"CSV", "PDF", "_csv_to_pdf">>, <<"CSV", "XLS", "_csv_to_xls">>,
     <<"CSV", "TXT", "_csv_to_txt">>, <<"JSON", "CSV", "_json_to_csv">>, <<"JSON", "XML", "_json_to_xml">>,
     <<"JSON", "HTML", "_json_to_html">>, <<"JSON", "XLSX", "_json_to_xlsx">>, <<"JSON", "TXT", "_json_to_txt">>,
     <<"JSON", "XLS", "_json_to_xls">>, <<"XML", "JSON", "_xml_to_json">>, <<"XML", "CSV", "_xml_to_csv">>,
     <<"XML", "HTML", "_xml_to_html">>, <<"XML", "PDF", "_xml_to_pdf">>, <<"PPTX", "PDF", "_pptx_to_pdf">>,
     <<"PPTX", "JPG", "_pptx_to_image">>, <<"PPTX", "PNG", "_pptx_to_image">>, <<"PPTX", "HTML", "_pptx_to_html">>,
     <<"PPTX", "PPT", "_pptx_to_ppt">>, <<"PPTX", "ODP", "_pptx_to_odp">>, <<"MP3", "WAV", "_audio_convert">>,
     <<"MP3", "AAC", "_audio_convert">>, <<"MP3", "FLAC", "_audio_convert">>, <<"MP3", "OGG", "_audio_convert">>,
     <<"WAV", "MP3", "_audio_convert">>, <<"WAV", "AAC", "_audio_convert">>, <<"WAV", "FLAC", "_audio_convert">>,
     <<"MP4", "AVI", "_video_convert">>, <<"MP4", "MOV", "_video_convert">>, <<"MP4", "WMV", "_video_convert">>,
     <<"MP4", "MKV", "_video_convert">>, <<"MP4", "WEBM", "_video_convert">>, <<"MP4", "MP3", "_video_to_audio">>,
     <<"MP4", "WAV", "_video_to_audio">>, <<"AVI", "MP4", "_video_convert">>, <<"AVI", "MOV", "_video_convert">>,
     <<"MOV", "MP4", "_video_convert">>, <<"MOV", "AVI", "_video_convert">> >>

ConversionService_methods ==
  { "__init__", "_get_converter_method", "_pdf_to_docx", "_pdf_to_docx_basic_fallback", "_add_image_to_docx",
    "_pdf_to_doc", "_pdf_to_html", "_pdf_to_image", "_pdf_to_xlsx", "_pdf_to_csv",
    "_pdf_to_xls", "_pdf_to_xml", "_pdf_to_epub", "_pdf_to_mobi", "_docx_to_pdf",
    "_docx_to_txt", "_docx_to_html", "_docx_to_rtf", "_docx_to_image", "_docx_to_odt",
    "_docx_to_xml", "_docx_to_epub", "_docx_to_mobi", "_doc_to_pdf", "_doc_to_html",
    "_xlsx_to_csv", "_xlsx_to_pdf", "_xlsx_to_html", "_xlsx_to_json", "_xlsx_to_xml",
    "_xlsx_to_ods", "_xlsx_to_txt", "_xls_to_csv", "_xls_to_pdf", "_xls_to_xlsx",
    "_image_convert", "_image_to_pdf", "_image_to_docx", "_image_to_doc", "_image_to_xlsx",
    "_image_to_pptx", "_image_to_txt", "_image_to_svg", "_svg_to_image", "_svg_to_pdf",
    "_txt_to_pdf", "_txt_to_docx", "_txt_to_html", "_txt_to_csv", "_txt_to_json",
    "_html_to_pdf", "_html_to_docx", "_html_to_txt", "_html_to_image", "_html_to_epub",
    "_html_to_mobi", "_csv_to_xlsx", "_csv_to_json", "_csv_to_xml", "_csv_to_html",
    "_csv_to_pdf", "_csv_to_xls", "_csv_to_txt", "_json_to_csv", "_json_to_xml",
    "_json_to_html", "_json_to_xlsx", "_json_to_txt", "_json_to_xls", "_xml_to_json",
    "_xml_to_csv", "_xml_to_html", "_xml_to_pdf", "_pptx_to_pdf", "_pptx_to_image",
    "_pptx_to_html", "_pptx_to_ppt", "_pptx_to_odp", "_audio_convert", "_video_convert",
    "_video_to_audio", "_image_to_html", "_image_to_base64", "_html_to_doc", "_html_to_xlsx",
    "_html_to_pptx", "_html_to_csv", "_epub_to_mobi", "_pdf_to_pptx" }

supported_formats ==
  << [source |-> "PDF", destination |-> {"DOCX", "DOC", "XLSX", "XLS", "HTML", "JPG", "PNG", "TIFF", "GIF", "TXT", "PPT", "PPTX", "CSV", "XML", "EPUB", "MOBI"}],
     [source |-> "DOCX", destination |-> {"PDF", "HTML", "TXT", "RTF", "ODT", "XML", "EPUB", "MOBI", "JPG", "PNG"}],
     [source |-> "DOC", destination |-> {"PDF", "HTML", "TXT", "RTF", "ODT", "XML", "EPUB", "MOBI", "JPG", "PNG"}],
     [source |-> "XLSX", destination |-> {"CSV", "PDF", "HTML", "XML", "ODS", "TXT", "JSON"}],
     [source |-> "XLS", destination |-> {"CSV", "PDF", "HTML", "XML", "ODS", "TXT", "JSON"}],
     [source |-> "JPEG/JPG", destination |-> {"PDF", "PNG", "BMP", "GIF", "TIFF", "WEBP", "SVG", "ICO", "DOCX", "DOC", "PPTX", "TXT"}],
     [source |-> "PNG", destination |-> {"PDF", "JPG", "BMP", "GIF", "TIFF", "WEBP", "SVG", "ICO", "DOCX", "DOC", "XLSX", "PPTX", "TXT"}],
     [source |-> "BMP", destination |-> {"PDF", "JPG", "PNG", "GIF", "TIFF", "WEBP", "SVG", "ICO", "DOCX", "DOC", "TXT"}],
     [source |-> "GIF", destination |-> {"PDF", "JPG", "PNG", "BMP", "TIFF", "WEBP", "SVG", "ICO", "DOCX", "DOC"}],
     [source |-> "TIFF", destination |-> {"PDF", "JPG", "PNG", "BMP", "GIF", "WEBP", "SVG", "ICO", "DOCX", "DOC", "TXT"}],
     [source |-> "TXT", destination |-> {"DOCX", "DOC", "PDF", "HTML", "RTF", "ODT", "EPUB", "MOBI", "CSV", "XML", "JSON", "MP3"}],
     [source |-> "XML", destination |-> {"DOCX", "PDF", "HTML", "TXT", "XLSX", "XLS", "CSV", "JSON"}],
     [source |-> "HTML", destination |-> {"PDF", "DOCX", "DOC", "TXT", "EPUB", "MOBI", "JPG", "PNG"}],
     [source |-> "CSV", destination |-> {"XLSX", "XLS", "PDF", "HTML", "XML", "JSON", "TXT"}],
     [source |-> "PPTX", destination |-> {"PDF", "JPG", "PNG", "PPT", "HTML", "ODP"}],
     [source |-> "PPT", destination |-> {"PDF", "JPG", "PNG", "PPTX", "HTML", "ODP"}],
     [source |-> "RTF", destination |-> {"DOCX", "DOC", "PDF", "HTML", "TXT", "ODT"}],
     [source |-> "ODT", destination |-> {"DOCX", "DOC", "PDF", "HTML", "TXT", "RTF", "EPUB", "MOBI"}],
     [source |-> "ODS", destination |-> {"XLSX", "XLS", "CSV", "PDF", "HTML", "XML", "JSON"}],
     [source |-> "ODP", destination |-> {"PPTX", "PPT", "PDF", "JPG", "PNG", "HTML"}],
     [source |-> "EPUB", destination |-> {"PDF", "MOBI", "AZW3", "TXT", "HTML", "DOCX", "DOC"}],
     [source |-> "MOBI", destination |-> {"PDF", "EPUB", "AZW3", "TXT", "HTML", "DOCX", "DOC"}],
     [source |-> "AZW3", destination |-> {"PDF", "EPUB", "MOBI", "TXT", "HTML", "DOCX", "DOC"}],
     [source |-> "JSON", destination |-> {"XML", "CSV", "TXT", "HTML", "XLSX", "XLS"}],
     [source |-> "WEBP", destination |-> {"JPG", "PNG", "BMP", "GIF", "TIFF", "PDF", "SVG", "ICO"}],
     [source |-> "SVG", destination |-> {"PNG", "JPG", "PDF", "WEBP", "BMP", "GIF", "TIFF"}],
     [source |-> "MP3", destination |-> {"WAV", "AAC", "FLAC", "OGG", "M4A"}],
     [source |-> "WAV", destination |-> {"MP3", "AAC", "FLAC", "OGG", "M4A"}],
     [source |-> "MP4", destination |-> {"AVI", "MOV", "WMV", "FLV", "MKV", "WEBM", "MP3", "WAV", "GIF"}],
     [source |-> "AVI", destination |-> {"MP4", "MOV", "WMV", "FLV", "MKV", "WEBM", "MP3", "WAV", "GIF"}],
     [source |-> "MOV", destination |-> {"MP4", "AVI", "WMV", "FLV", "MKV", "WEBM", "MP3", "WAV", "GIF"}] >>

\* ------------------------------------------------- request inputs (bounded)
\* uploaded byte strings, with their length in bytes
Contents == {"A", "BIG"}
ContentLen(c) == IF c = "BIG" THEN MAX_FILE_SIZE_BYTES + 1 ELSE 1

\* file names sent by clients
Filenames == { <<"a", ".", "x">>, <<"a", ".", "y">>, <<".", ".", "/", "a", ".", "x">>,
               <<"a", ".", ".", "x">> }

\* (sourceFormat, destinationFormat) form fields sent by clients
RequestPairs == { <<"pdf", "docx">>, <<"AVI", "FLV">>, <<"FOO", "BAR">> }

\* valid requests, one pair for each converter modelled below and one that
\* converter_map does not have
ChainContents == {"A"}
ChainFilenames == { <<"a", ".", "x">> }
ChainPairs == { <<"pdf", "docx">>, <<"DOCX", "PDF">>, <<"HTML", "PDF">>, <<"AVI", "FLV">> }

\* str.upper() on the format strings clients send
Upper(s) ==
  CASE s = "pdf" -> "PDF"
    [] s = "docx" -> "DOCX"
    [] OTHER -> s

\* str.lower() on the normalised destination formats
Lower(s) ==
  CASE s = "PDF" -> "pdf"
    [] s = "DOCX" -> "docx"
    [] s = "FLV" -> "flv"
    [] s = "BAR" -> "bar"
    [] OTHER -> s

\* hashlib.sha256(content).hexdigest()
calculate_file_hash(content) == <<"sha256", content>>

\* ------------------------------------------------------------ path helpers
RECURSIVE rfind(_, _, _)
\* str.rfind restricted to s[1..i]: the last position of ch, 0 when absent
rfind(s, ch, i) ==
  IF i = 0 THEN 0
  ELSE IF s[i] = ch THEN i ELSE rfind(s, ch, i - 1)

\* os.path.basename: what follows the last "/"
basename(p) == SubSeq(p, rfind(p, "/", Len(p)) + 1, Len(p))

\* the substring tests of the filename check: ".." in s
HasDotDot(s) == \E i \in 1..(Len(s) - 1) : s[i] = "." /\ s[i + 1] = "."
HasChar(s, ch) == \E i \in 1..Len(s) : s[i] = ch

\* os.path.splitext(p)[1]: from the last dot of the last component, unless
\* only dots precede it in that component
splitext_ext(p) ==
  LET sepIndex == rfind(p, "/", Len(p))
      dotIndex == rfind(p, ".", Len(p))
  IN  IF dotIndex > sepIndex /\ (\E q \in (sepIndex + 1)..(dotIndex - 1) : p[q] # ".")
        THEN SubSeq(p, dotIndex, Len(p))
        ELSE << >>

\* ---------------------------------------------------------------- lookups
\* the supported-conversion loop of POST /convert
supported_conversion(source_format, destination_format) ==
  \E i \in 1..Len(supported_formats) :
     /\ \/ supported_formats[i].source = source_format
        \/ (supported_formats[i].source = "JPEG/JPG" /\ source_format = "JPG")
     /\ destination_format \in supported_formats[i].destination

\* JPEG/JPG normalisation of a format string
NormalizeFormat(f) == IF Upper(f) \in {"JPEG", "JPG"} THEN "JPG" ELSE Upper(f)

\* the names the converter_map literal reads from self, in the order written
converter_map_names == { converter_map_items[i][3] : i \in 1..Len(converter_map_items) }

\* converter_map.get((source, destination)): the last item with that key,
\* None when there is none
converter_map_get(source, destination) ==
  LET hits == { i \in 1..Len(converter_map_items) :
                  converter_map_items[i][1] = source /\ converter_map_items[i][2] = destination }
  IN  IF hits = {} THEN None
      ELSE converter_map_items[CHOOSE i \in hits : \A k \in hits : k <= i][3]

\* the first name of the literal that is not an attribute of the service
\* (building the dict raises AttributeError there), None when all are bound
FirstUnbound(unbound_names) ==
  LET miss == { i \in 1..Len(converter_map_items) : converter_map_items[i][3] \in unbound_names }
  IN  IF miss = {} THEN None
      ELSE converter_map_items[CHOOSE i \in miss : \A k \in miss : i <= k][3]

\* ConversionService._get_converter_method: [raised, value]; value is the
\* converter's name, None, or the exception text
get_converter_method(unbound_names, source, destination) ==
  IF FirstUnbound(unbound_names) # None
    THEN [raised |-> TRUE,
          value |-> "'ConversionService' object has no attribute '" \o FirstUnbound(unbound_names) \o "'"]
    ELSE [raised |-> FALSE, value |-> converter_map_get(Upper(source), Upper(destination))]

\* ------------------------------------------------------------------- state
VARIABLES
  jobs,               \* main.jobs: job id -> job dict
  file_hash_mapping,  \* main.file_hash_mapping: hash -> {filename, upload_path}
  files,              \* the paths that exist under uploads/ and converted/
  next_id,            \* how many uuid4 job ids have been generated
  uploads,            \* POST /convert coroutines suspended in get_or_create_file_path
  task,               \* perform_conversion background tasks, by job id
  running,            \* the job whose coroutine holds the event loop, 0 when none does
  resp,               \* the last response of POST /convert: status code, job id (0 when
                      \* there is none) and, when rejected, the normalised pair asked for
  unbound,            \* the names converter_map reads that the service instance lacks
  deleting,           \* the jobs whose DELETE handler has removed the converted file
                      \* and has not yet reached del jobs[jobId]
  call                \* the GET or DELETE request of the polling client: the handler's
                      \* position in its worker thread, what it has read, its response

vars == <<jobs, file_hash_mapping, files, next_id, uploads, task, running, resp, unbound,
          deleting, call>>

\* no request of the polling client yet
NoCall ==
  [ op |-> None, jobId |-> 0, pc |-> "done", code |-> 0, job |-> << >>, status |-> None,
    progress |-> 0, downloadUrl |-> None, error |-> None, conversion_method |-> None,
    warning |-> None ]

MaxOf(S) == CHOOSE x \in S : \A y \in S : y <= x
JobIds == 1..MaxOf({MaxJobs, MaxChainJobs, MaxDedupJobs, MaxSweepJobs, MaxApiJobs, MaxPoolJobs})

\* the job dict written by POST /convert; original_filename, which only
\* GET /download reads, is left out
NewJob(upload_path, output_path, source_format, destination_format, file_hash) ==
  [ status |-> "pending", progress |-> 0, upload_path |-> upload_path,
    converted_path |-> output_path, error |-> None,
    source_format |-> source_format, destination_format |-> destination_format,
    file_hash |-> file_hash, conversion_method |-> None, warning |-> None ]

\* the arguments background_tasks.add_task(perform_conversion, ...) captures
NewTask(upload_path, output_path, source_format, destination_format) ==
  [ pc |-> "queued", input_path |-> upload_path, output_path |-> output_path,
    source_format |-> source_format, destination_format |-> destination_format,
    chain |-> None, conv |-> None, at |-> 0, n |-> 0, k |-> 0, tried |-> << >>, won |-> None,
    result |-> None, exc |-> None ]

\* converted/<job_id>_output.<ext>
OutputPath(job_id, destination_format) ==
  [dir |-> CONVERTED_DIR, name |-> <<job_id, "_output", Lower(destination_format)>>]

\* uploads/<hash><ext>
UploadFilename(file_hash, original_filename) ==
  <<file_hash, IF original_filename # << >> THEN splitext_ext(original_filename) ELSE << >> >>

UploadPath(upload_filename) == [dir |-> UPLOAD_DIR, name |-> upload_filename]

Init ==
  /\ jobs = << >>
  /\ file_hash_mapping = << >>
  /\ files = {}
  /\ next_id = 0
  /\ uploads = << >>
  /\ task = << >>
  /\ running = 0
  /\ resp = [code |-> 0, jobId |-> 0, pair |-> << >>]
  /\ unbound = converter_map_names \ ConversionService_methods
  /\ deleting = {}
  /\ call = NoCall

\* the service with every name of converter_map bound
InitChain ==
  /\ jobs = << >>
  /\ file_hash_mapping = << >>
  /\ files = {}
  /\ next_id = 0
  /\ uploads = << >>
  /\ task = << >>
  /\ running = 0
  /\ resp = [code |-> 0, jobId |-> 0, pair |-> << >>]
  /\ unbound = {}
  /\ deleting = {}
  /\ call = NoCall

Remove(f, x) == [y \in DOMAIN f \ {x} |-> f[y]]

\* the validation of POST /convert without its supported-conversion loop
\* (lines 344-354 left out): what C9 rests on
Validate_NoFormatCheck(content, filename, sourceFormat, destinationFormat) ==
  LET original_filename == basename(filename)
  IN  IF ContentLen(content) > MAX_FILE_SIZE_BYTES THEN 413
      ELSE IF HasDotDot(original_filename) \/ HasChar(original_filename, "/")
                \/ HasChar(original_filename, "\\") THEN 400
      ELSE 200

\* --------------------------------------------------------- POST /convert
\* the status code of the validation part of the handler
Validate(content, filename, sourceFormat, destinationFormat) ==
  LET original_filename == basename(filename)
  IN  IF ContentLen(content) > MAX_FILE_SIZE_BYTES THEN 413
      ELSE IF HasDotDot(original_filename) \/ HasChar(original_filename, "/")
                \/ HasChar(original_filename, "\\") THEN 400
      ELSE IF ~ supported_conversion(NormalizeFormat(sourceFormat), NormalizeFormat(destinationFormat))
             THEN 400
      ELSE 200

\* a handler that stores the upload before it validates the request: what
\* C26 rests on
ConvertRejected_StoresFirst(content, filename, pair) ==
  /\ running = 0
  /\ Validate(content, filename, pair[1], pair[2]) # 200
  /\ files' = files \cup {UploadPath(UploadFilename(calculate_file_hash(content),
                                                      basename(filename)))}
  /\ resp' = [code |-> Validate(content, filename, pair[1], pair[2]), jobId |-> 0,
               pair |-> <<NormalizeFormat(pair[1]), NormalizeFormat(pair[2])>>]
  /\ UNCHANGED <<jobs, file_hash_mapping, next_id, uploads, task, running, unbound, deleting, call>>

\* a request that fails validation: HTTPException, nothing else happens
ConvertRejected(content, filename, pair) ==
  /\ running = 0
  /\ Validate(content, filename, pair[1], pair[2]) # 200
  /\ resp' = [code |-> Validate(content, filename, pair[1], pair[2]), jobId |-> 0,
               pair |-> <<NormalizeFormat(pair[1]), NormalizeFormat(pair[2])>>]
  /\ UNCHANGED <<jobs, file_hash_mapping, files, next_id, uploads, task, running, unbound, deleting, call>>

\* a valid request whose hash is in file_hash_mapping: the handler runs to
\* its return without suspending
ConvertReuse(limit, content, filename, pair) ==
  LET job_id == next_id + 1
      file_hash == calculate_file_hash(content)
      source_format == NormalizeFormat(pair[1])
      destination_format == NormalizeFormat(pair[2])
      upload_path == file_hash_mapping[file_hash].upload_path
      output_path == OutputPath(job_id, destination_format)
  IN  /\ running = 0
      /\ next_id < limit
      /\ Validate(content, filename, pair[1], pair[2]) = 200
      /\ file_hash \in DOMAIN file_hash_mapping
      /\ next_id' = job_id
      /\ jobs' = (job_id :> NewJob(upload_path, output_path, source_format, destination_format, file_hash)) @@ jobs
      /\ task' = (job_id :> NewTask(upload_path, output_path, source_format, destination_format)) @@ task
      /\ resp' = [code |-> 200, jobId |-> job_id, pair |-> << >>]
      /\ UNCHANGED <<file_hash_mapping, files, uploads, running, unbound, deleting, call>>

\* a valid request whose hash is not in file_hash_mapping: the handler
\* suspends at aiofiles.open, before anything is stored
ConvertStore(limit, content, filename, pair) ==
  LET job_id == next_id + 1
      file_hash == calculate_file_hash(content)
      upload_filename == UploadFilename(file_hash, basename(filename))
  IN  /\ running = 0
      /\ next_id < limit
      /\ Validate(content, filename, pair[1], pair[2]) = 200
      /\ file_hash \notin DOMAIN file_hash_mapping
      /\ next_id' = job_id
      /\ uploads' = (job_id :> [ pc |-> "open", file_hash |-> file_hash,
                                 filename |-> upload_filename,
                                 upload_path |-> UploadPath(upload_filename),
                                 source_format |-> NormalizeFormat(pair[1]),
                                 destination_format |-> NormalizeFormat(pair[2]) ]) @@ uploads
      /\ UNCHANGED <<jobs, file_hash_mapping, files, task, running, resp, unbound, deleting, call>>

\* aiofiles writes the upload in its worker thread
UploadWrite(job_id) ==
  /\ job_id \in DOMAIN uploads
  /\ uploads[job_id].pc = "open"
  /\ files' = files \cup {uploads[job_id].upload_path}
  /\ uploads' = [uploads EXCEPT ![job_id].pc = "written"]
  /\ UNCHANGED <<jobs, file_hash_mapping, next_id, task, running, resp, unbound, deleting, call>>

\* the handler resumes: the mapping is stored, the job created, the
\* background task added and the job id returned
ConvertFinish(job_id) ==
  /\ running = 0
  /\ job_id \in DOMAIN uploads
  /\ uploads[job_id].pc = "written"
  /\ LET u == uploads[job_id]
         output_path == OutputPath(job_id, u.destination_format)
     IN  /\ file_hash_mapping' =
               (u.file_hash :> [filename |-> u.filename, upload_path |-> u.upload_path])
                 @@ Remove(file_hash_mapping, u.file_hash)
         /\ jobs' = (job_id :> NewJob(u.upload_path, output_path, u.source_format,
                                      u.destination_format, u.file_hash)) @@ jobs
         /\ task' = (job_id :> NewTask(u.upload_path, output_path, u.source_format,
                                       u.destination_format)) @@ task
  /\ uploads' = Remove(uploads, job_id)
  /\ resp' = [code |-> 200, jobId |-> job_id, pair |-> << >>]
  /\ UNCHANGED <<files, next_id, running, unbound, deleting, call>>

\* ------------------------------------- perform_conversion / convert_file
\* what is left of a background task that has ended: how it ended and what
\* its converter did
Ended(t, how) ==
  [t EXCEPT !.pc = how, !.input_path = None, !.output_path = None, !.source_format = None,
            !.destination_format = None, !.at = 0, !.n = 0, !.k = 0, !.exc = None]

\* a background task that ended with an exception nobody handles
Crashed(t) == Ended(t, "crashed")

\* a write that creates the entry when the job is gone, as
\* jobs.setdefault(job_id, {...})[field] = value would: what C30 rests on
LoopWrite_Recreates(job_id, field, value, next_pc, holder) ==
  /\ jobs' = IF job_id \in DOMAIN jobs
               THEN [jobs EXCEPT ![job_id][field] = value]
               ELSE (job_id :> [NewJob(task[job_id].input_path, task[job_id].output_path,
                                       task[job_id].source_format,
                                       task[job_id].destination_format, << >>)
                                  EXCEPT ![field] = value]) @@ jobs
  /\ task' = [task EXCEPT ![job_id] = IF next_pc = "done" THEN Ended(task[job_id], "done")
                                       ELSE [task[job_id] EXCEPT !.pc = next_pc]]
  /\ running' = holder

\* jobs[job_id][field] = value inside convert_file, on the event loop.
\* When the job was deleted the write raises KeyError, the handler of
\* convert_file (line 100) raises it again, and so does the handler of
\* perform_conversion (line 241): the task dies.
LoopWrite(job_id, field, value, next_pc, holder) ==
  IF job_id \in DOMAIN jobs
    THEN /\ jobs' = [jobs EXCEPT ![job_id][field] = value]
         /\ task' = [task EXCEPT ![job_id] = IF next_pc = "done" THEN Ended(task[job_id], "done")
                                              ELSE [task[job_id] EXCEPT !.pc = next_pc]]
         /\ running' = holder
    ELSE /\ jobs' = jobs
         /\ task' = [task EXCEPT ![job_id] = Crashed(task[job_id])]
         /\ running' = 0

AtPc(job_id, pc) == job_id \in DOMAIN task /\ task[job_id].pc = pc

\* line 69: status = "converting"; the coroutine now runs until its await
BeginConvert(job_id) ==
  /\ AtPc(job_id, "queued")
  /\ running = 0
  /\ LoopWrite(job_id, "status", "converting", "progress10", job_id)
  /\ UNCHANGED <<file_hash_mapping, files, next_id, uploads, resp, unbound, deleting, call>>

\* line 70: progress = 10
InitialProgress(job_id) ==
  /\ AtPc(job_id, "progress10")
  /\ LoopWrite(job_id, "progress", 10, "lookup", job_id)
  /\ UNCHANGED <<file_hash_mapping, files, next_id, uploads, resp, unbound, deleting, call>>

\* lines 73-86: the lookup; either it raises, or there is no converter
\* (ValueError), or the converter is handed to the thread pool and the
\* coroutine suspends
Lookup(job_id) ==
  /\ AtPc(job_id, "lookup")
  /\ LET t == task[job_id]
         r == get_converter_method(unbound, t.source_format, t.destination_format)
     IN  IF r.raised
           THEN /\ task' = [task EXCEPT ![job_id].pc = "except", ![job_id].exc = r.value]
                /\ running' = running
           ELSE IF r.value = None
           THEN /\ task' = [task EXCEPT ![job_id].pc = "except",
                               ![job_id].exc = "Conversion from " \o t.source_format \o " to "
                                                 \o t.destination_format \o " not supported"]
                /\ running' = running
           ELSE /\ task' = [task EXCEPT ![job_id].pc = "executor", ![job_id].chain = r.value,
                               ![job_id].conv = r.value]
                /\ running' = 0
  /\ UNCHANGED <<jobs, file_hash_mapping, files, next_id, uploads, resp, unbound, deleting, call>>

\* a handler that puts the job back to "pending" instead of failing it:
\* what C3 rests on
ExceptStatus_Pending(job_id) ==
  /\ AtPc(job_id, "except")
  /\ LoopWrite(job_id, "status", "pending", "except_error", job_id)
  /\ UNCHANGED <<file_hash_mapping, files, next_id, uploads, resp, unbound, deleting, call>>

\* lines 98-100: the handler of convert_file sets status = "error"
ExceptStatus(job_id) ==
  /\ AtPc(job_id, "except")
  /\ LoopWrite(job_id, "status", "error", "except_error", job_id)
  /\ UNCHANGED <<file_hash_mapping, files, next_id, uploads, resp, unbound, deleting, call>>

\* line 101: error = str(e); convert_file returns False
ExceptError(job_id) ==
  /\ AtPc(job_id, "except_error")
  /\ LoopWrite(job_id, "error", task[job_id].exc, "done", 0)
  /\ UNCHANGED <<file_hash_mapping, files, next_id, uploads, resp, unbound, deleting, call>>

\* line 89: the converter returned a truthy value, status = "completed"
CompletedStatus(job_id) ==
  /\ AtPc(job_id, "returned")
  /\ task[job_id].result = "True"
  /\ running = 0
  /\ LoopWrite(job_id, "status", "completed", "completed_progress", job_id)
  /\ UNCHANGED <<file_hash_mapping, files, next_id, uploads, resp, unbound, deleting, call>>

\* line 90: progress = 100
CompletedProgress(job_id) ==
  /\ AtPc(job_id, "completed_progress")
  /\ LoopWrite(job_id, "progress", 100, "completed_path", job_id)
  /\ UNCHANGED <<file_hash_mapping, files, next_id, uploads, resp, unbound, deleting, call>>

\* line 91: converted_path = output_path; convert_file returns
CompletedPath(job_id) ==
  /\ AtPc(job_id, "completed_path")
  /\ LoopWrite(job_id, "converted_path", task[job_id].output_path, "done", 0)
  /\ UNCHANGED <<file_hash_mapping, files, next_id, uploads, resp, unbound, deleting, call>>

\* the else branch without its status write (line 93 left out): what C1
\* rests on
FailedStatus_KeepsStatus(job_id) ==
  /\ AtPc(job_id, "returned")
  /\ task[job_id].result = "False"
  /\ running = 0
  /\ LoopWrite(job_id, "status", "converting", "failed_error", job_id)
  /\ UNCHANGED <<file_hash_mapping, files, next_id, uploads, resp, unbound, deleting, call>>

\* line 93: the converter returned a falsy value, status = "error"
FailedStatus(job_id) ==
  /\ AtPc(job_id, "returned")
  /\ task[job_id].result = "False"
  /\ running = 0
  /\ LoopWrite(job_id, "status", "error", "failed_error", job_id)
  /\ UNCHANGED <<file_hash_mapping, files, next_id, uploads, resp, unbound, deleting, call>>

\* the else branch without its message (line 94 writing None): what C6
\* rests on
FailedError_NoMessage(job_id) ==
  /\ AtPc(job_id, "failed_error")
  /\ LoopWrite(job_id, "error", None, "done", 0)
  /\ UNCHANGED <<file_hash_mapping, files, next_id, uploads, resp, unbound, deleting, call>>

\* line 94: error = "Conversion failed"; convert_file returns
FailedError(job_id) ==
  /\ AtPc(job_id, "failed_error")
  /\ LoopWrite(job_id, "error", "Conversion failed", "done", 0)
  /\ UNCHANGED <<file_hash_mapping, files, next_id, uploads, resp, unbound, deleting, call>>

\* the converter raised: the await at line 79 raises into the handler
ConverterRaised(job_id) ==
  /\ AtPc(job_id, "returned")
  /\ task[job_id].result = "raised"
  /\ running = 0
  /\ task' = [task EXCEPT ![job_id].pc = "except"]
  /\ running' = job_id
  /\ UNCHANGED <<jobs, file_hash_mapping, files, next_id, uploads, resp, unbound, deleting, call>>

\* ------------------------------------------------------------- converters
\* A converter is a sequence of instructions, one per write to the job dict
\* and one per piece of work whose outcome the environment decides.
\*   set   jobs[job_id][f] = v
\*   call  work that touches no job: nx are the ways it can end normally,
\*         ex the handlers it can raise into
\*   out   the output file now exists at output_path
\*   open  a document is opened and has 0..MaxPages pages (or blocks)
\*   page  the loop over the pages, writing progress for each
\*   ret   return v
\*   tail  return self.<v>(input_path, output_path, job_id, jobs)
\* A message the code builds with an f-string is written as its fixed
\* prefix: the exception text that follows is not modelled.
\* m names the method of the fallback chain the instruction belongs to;
\* kx is the handler a KeyError of the instruction is caught by ({} when it
\* leaves the converter).
SetI(m, f, v, nx, kx) == [op |-> "set", m |-> m, f |-> f, v |-> v, nx |-> {nx}, ex |-> {}, kx |-> kx]
CallI(m, nx, ex) == [op |-> "call", m |-> m, f |-> "", v |-> 0, nx |-> nx, ex |-> ex, kx |-> {}]
OutI(m, nx) == [op |-> "out", m |-> m, f |-> "", v |-> 0, nx |-> {nx}, ex |-> {}, kx |-> {}]
OpenI(m, nx, ex) == [op |-> "open", m |-> m, f |-> "", v |-> 0, nx |-> {nx}, ex |-> ex, kx |-> {}]
PageI(m, base, nx, ex, kx) == [op |-> "page", m |-> m, f |-> "progress", v |-> base, nx |-> {nx}, ex |-> ex, kx |-> kx]
RetI(m, v) == [op |-> "ret", m |-> m, f |-> "", v |-> v, nx |-> {}, ex |-> {}, kx |-> {}]
TailI(m, v) == [op |-> "tail", m |-> m, f |-> "", v |-> v, nx |-> {}, ex |-> {}, kx |-> {}]

\* progress = 20 + (i / total) * 60
PageProgress(i, total) == 20 + (i * 60) \div total

\* ConversionService._pdf_to_docx
pdf_to_docx ==
  << SetI("", "progress", 10, 2, {}),                                        \* 1   l.295
     CallI("libreoffice", {3}, {10}),                                        \* 2   l.299-307
     SetI("libreoffice", "progress", 60, 4, {10}),                           \* 3   l.308
     CallI("libreoffice", {5, 11}, {10}),                                    \* 4   l.310-315, 321-324
     OutI("libreoffice", 6),                                                 \* 5   l.315
     SetI("libreoffice", "progress", 100, 7, {10}),                          \* 6   l.316
     SetI("libreoffice", "conversion_method", "libreoffice", 8, {10}),       \* 7   l.317
     SetI("libreoffice", "warning", None, 9, {10}),                          \* 8   l.318
     RetI("libreoffice", "True"),                                            \* 9   l.320
     SetI("libreoffice", "error", "An error occurred during conversion.", 11, {}),  \* 10  l.325-327
     OpenI("pymupdf", 12, {17, 18}),                                         \* 11  l.331-337
     PageI("pymupdf", 0, 13, {17, 18}, {18}),                                \* 12  l.339-404
     CallI("pymupdf", {14}, {17, 18}),                                       \* 13  l.406-407
     OutI("pymupdf", 15),                                                    \* 14  l.407
     SetI("pymupdf", "warning", "PDF to DOCX conversion used Python-based fallback. Layout fidelity may vary. For best results, ensure LibreOffice is installed and in your PATH.", 16, {18}),  \* 15  l.409
     RetI("pymupdf", "True"),                                                \* 16  l.410
     SetI("pymupdf", "error", "Missing dependency for PDF to DOCX Python fallback", 19, {}),      \* 17  l.411-413
     SetI("pymupdf", "error", "PDF to DOCX Python fallback conversion failed", 19, {}),           \* 18  l.416-418
     TailI("pymupdf", "_pdf_to_docx_basic_fallback") >>                      \* 19  l.415, 420

\* ConversionService._pdf_to_docx_basic_fallback
pdf_to_docx_basic_fallback ==
  << OpenI("basic", 2, {7}),                                                 \* 1   l.425-431
     PageI("basic", 0, 3, {7}, {7}),                                         \* 2   l.433-447
     CallI("basic", {4}, {7}),                                               \* 3   l.449
     OutI("basic", 5),                                                       \* 4   l.449
     SetI("basic", "warning", "PDF to DOCX conversion used basic text extraction fallback. Images, tables, and complex formatting were not preserved.", 6, {7}),  \* 5  l.451
     RetI("basic", "True"),                                                  \* 6   l.452
     SetI("basic", "error", "PDF to DOCX conversion failed even with basic fallback", 8, {}),          \* 7  l.453-455
     RetI("basic", "False") >>                                               \* 8   l.456

\* ConversionService._docx_to_pdf
docx_to_pdf ==
  << SetI("", "progress", 10, 2, {}),                                        \* 1   l.829
     CallI("libreoffice", {3}, {11}),                                        \* 2   l.833-841
     SetI("libreoffice", "progress", 60, 4, {11}),                           \* 3   l.842
     CallI("libreoffice", {5, 10}, {11}),                                    \* 4   l.843-847, 853
     OutI("libreoffice", 6),                                                 \* 5   l.847
     SetI("libreoffice", "progress", 100, 7, {11}),                          \* 6   l.848
     SetI("libreoffice", "conversion_method", "libreoffice", 8, {11}),       \* 7   l.849
     SetI("libreoffice", "warning", None, 9, {11}),                          \* 8   l.850
     RetI("libreoffice", "True"),                                            \* 9   l.852
     SetI("libreoffice", "error", "LibreOffice failed", 12, {11}),           \* 10  l.855
     SetI("libreoffice", "error", "LibreOffice not available or failed", 12, {}),  \* 11  l.856-858
     CallI("docx2pdf", {13}, {18}),                                          \* 12  l.862-863, 869
     OutI("docx2pdf", 14),                                                   \* 13  l.863
     SetI("docx2pdf", "progress", 100, 15, {18}),                            \* 14  l.864
     SetI("docx2pdf", "conversion_method", "docx2pdf", 16, {18}),            \* 15  l.865
     SetI("docx2pdf", "warning", None, 17, {18}),                            \* 16  l.866
     RetI("docx2pdf", "True"),                                               \* 17  l.868
     CallI("unoconv", {19, 24}, {25}),                                       \* 18  l.874-876, 882
     OutI("unoconv", 20),                                                    \* 19  l.875
     SetI("unoconv", "progress", 100, 21, {25}),                             \* 20  l.877
     SetI("unoconv", "conversion_method", "unoconv", 22, {25}),              \* 21  l.878
     SetI("unoconv", "warning", None, 23, {25}),                             \* 22  l.879
     RetI("unoconv", "True"),                                                \* 23  l.881
     SetI("unoconv", "error", "An error occurred during conversion.", 26, {25}),   \* 24  l.884
     SetI("unoconv", "error", "An error occurred during conversion.", 26, {}),     \* 25  l.885-887
     CallI("pandoc", {27, 32}, {33}),                                        \* 26  l.891-893, 899
     OutI("pandoc", 28),                                                     \* 27  l.892
     SetI("pandoc", "progress", 100, 29, {33}),                              \* 28  l.894
     SetI("pandoc", "conversion_method", "pandoc", 30, {33}),                \* 29  l.895
     SetI("pandoc", "warning", None, 31, {33}),                              \* 30  l.896
     RetI("pandoc", "True"),                                                 \* 31  l.898
     SetI("pandoc", "error", "An error occurred during conversion.", 34, {33}),    \* 32  l.901
     SetI("pandoc", "error", "An error occurred during conversion.", 34, {}),      \* 33  l.902-904
     OpenI("python-docx-fallback", 35, {46}),                                \* 34  l.908-946
     PageI("python-docx-fallback", 1, 36, {46}, {46}),                       \* 35  l.948-1043
     CallI("python-docx-fallback", {37, 42}, {46}),                          \* 36  l.1045-1046, 1054
     OutI("python-docx-fallback", 38),                                       \* 37  l.1046
     SetI("python-docx-fallback", "progress", 100, 39, {46}),                \* 38  l.1047
     SetI("python-docx-fallback", "conversion_method", "python-docx-fallback", 40, {46}),  \* 39  l.1048
     SetI("python-docx-fallback", "warning", "Fallback method used: layout may not be perfect. For best results, ensure LibreOffice is installed and working.", 41, {46}),  \* 40  l.1049-1051
     RetI("python-docx-fallback", "True"),                                   \* 41  l.1053
     SetI("python-docx-fallback", "error", "No valid content found for conversion", 43, {46}),     \* 42  l.1056
     SetI("python-docx-fallback", "conversion_method", "python-docx-fallback", 44, {46}),          \* 43  l.1057
     SetI("python-docx-fallback", "warning", "No valid content found for conversion.", 45, {46}),  \* 44  l.1058
     RetI("python-docx-fallback", "False"),                                  \* 45  l.1059
     SetI("python-docx-fallback", "error", "DOCX to PDF conversion failed", 47, {}),               \* 46  l.1061-1063
     SetI("python-docx-fallback", "conversion_method", "python-docx-fallback", 48, {}),            \* 47  l.1064
     SetI("python-docx-fallback", "warning", "DOCX to PDF conversion failed", 49, {}),             \* 48  l.1065
     RetI("python-docx-fallback", "False") >>                                \* 49  l.1066

\* ConversionService._html_to_pdf
html_to_pdf ==
  << SetI("", "progress", 10, 2, {}),                                        \* 1   l.1976
     CallI("wkhtmltopdf", {3}, {8}),                                         \* 2   l.1980-1981, 1990
     SetI("wkhtmltopdf", "progress", 60, 4, {8}),                            \* 3   l.1982
     CallI("wkhtmltopdf", {5, 8}, {}),                                       \* 4   l.1984, 1988
     OutI("wkhtmltopdf", 6),                                                 \* 5   l.1981
     SetI("wkhtmltopdf", "progress", 100, 7, {8}),                           \* 6   l.1985
     RetI("wkhtmltopdf", "True"),                                            \* 7   l.1987
     CallI("weasyprint", {9}, {12}),                                         \* 8   l.1995-1996, 2000
     OutI("weasyprint", 10),                                                 \* 9   l.1996
     SetI("weasyprint", "progress", 100, 11, {12}),                          \* 10  l.1997
     RetI("weasyprint", "True"),                                             \* 11  l.1999
     CallI("pdfkit", {13}, {16}),                                            \* 12  l.2005-2011, 2015
     OutI("pdfkit", 14),                                                     \* 13  l.2011
     SetI("pdfkit", "progress", 100, 15, {16}),                              \* 14  l.2012
     RetI("pdfkit", "True"),                                                 \* 15  l.2014
     CallI("pandoc", {17, 20}, {20}),                                        \* 16  l.2020-2022, 2026, 2028
     OutI("pandoc", 18),                                                     \* 17  l.2021
     SetI("pandoc", "progress", 100, 19, {20}),                              \* 18  l.2023
     RetI("pandoc", "True"),                                                 \* 19  l.2025
     CallI("beautifulsoup-reportlab", {21, 24}, {25}),                       \* 20  l.2033-2064, 2068, 2072
     OutI("beautifulsoup-reportlab", 22),                                    \* 21  l.2064
     SetI("beautifulsoup-reportlab", "progress", 100, 23, {25}),             \* 22  l.2065
     RetI("beautifulsoup-reportlab", "True"),                                \* 23  l.2067
     RetI("beautifulsoup-reportlab", "False"),                               \* 24  l.2070
     CallI("simple-text", {26, 29}, {30}),                                   \* 25  l.2077-2106, 2110
     OutI("simple-text", 27),                                                \* 26  l.2106
     SetI("simple-text", "progress", 100, 28, {30}),                         \* 27  l.2107
     RetI("simple-text", "True"),                                            \* 28  l.2109
     RetI("simple-text", "False"),                                           \* 29  l.2112
     SetI("simple-text", "error", "HTML to PDF conversion failed", 31, {}),  \* 30  l.2114-2116
     RetI("simple-text", "False") >>                                         \* 31  l.2117

\* the body of the method a name of converter_map is bound to
Program(conv) ==
  CASE conv = "_pdf_to_docx" -> pdf_to_docx
    [] conv = "_pdf_to_docx_basic_fallback" -> pdf_to_docx_basic_fallback
    [] conv = "_docx_to_pdf" -> docx_to_pdf
    [] conv = "_html_to_pdf" -> html_to_pdf

\* the chain of a converter: the names of its methods, in the order tried
FirstMethod(conv) ==
  CASE conv = "_pdf_to_docx" -> "libreoffice"
    [] conv = "_docx_to_pdf" -> "libreoffice"
    [] conv = "_html_to_pdf" -> "wkhtmltopdf"

SecondMethod(conv) ==
  CASE conv = "_pdf_to_docx" -> "pymupdf"
    [] conv = "_docx_to_pdf" -> "docx2pdf"
    [] conv = "_html_to_pdf" -> "weasyprint"

LastMethod(conv) ==
  CASE conv = "_pdf_to_docx" -> "basic"
    [] conv = "_docx_to_pdf" -> "python-docx-fallback"
    [] conv = "_html_to_pdf" -> "simple-text"

\* a worker of the pool picks the converter up
RunInExecutor(job_id) ==
  /\ AtPc(job_id, "executor")
  /\ Cardinality({j \in DOMAIN task : task[j].pc = "converter"}) < max_workers
  /\ task' = [task EXCEPT ![job_id].pc = "converter", ![job_id].at = 1]
  /\ UNCHANGED <<jobs, file_hash_mapping, files, next_id, uploads, running, resp, unbound, deleting, call>>

\* one instruction of the converter, in its worker thread
ConverterStep(job_id) ==
  /\ AtPc(job_id, "converter")
  /\ LET t == task[job_id]
         ins == Program(t.conv)[t.at]
         tried1 == IF ins.m # "" /\ (t.tried = << >> \/ t.tried[Len(t.tried)] # ins.m)
                     THEN Append(t.tried, ins.m) ELSE t.tried
         Goto(p) == [t EXCEPT !.at = p, !.tried = tried1]
         Leave(p) == [t EXCEPT !.at = p, !.tried = tried1, !.n = 0, !.k = 0]
         Raise == [t EXCEPT !.pc = "returned", !.result = "raised", !.exc = "KeyError",
                            !.at = 0, !.n = 0, !.k = 0, !.tried = tried1]
         KeyError == IF ins.kx = {} THEN Raise ELSE Leave(CHOOSE p \in ins.kx : TRUE)
     IN  CASE ins.op = "set" ->
                /\ IF job_id \in DOMAIN jobs
                     THEN /\ jobs' = [jobs EXCEPT ![job_id][ins.f] = ins.v]
                          /\ \E p \in ins.nx : task' = [task EXCEPT ![job_id] = Goto(p)]
                     ELSE /\ jobs' = jobs
                          /\ task' = [task EXCEPT ![job_id] = KeyError]
                /\ files' = files
           [] ins.op = "call" ->
                /\ \E p \in ins.nx \cup ins.ex : task' = [task EXCEPT ![job_id] = Goto(p)]
                /\ UNCHANGED <<jobs, files>>
           [] ins.op = "out" ->
                /\ files' = files \cup {t.output_path}
                /\ \E p \in ins.nx : task' = [task EXCEPT ![job_id] = Goto(p)]
                /\ jobs' = jobs
           [] ins.op = "open" ->
                /\ \/ \E n \in 0..MaxPages, p \in ins.nx :
                         task' = [task EXCEPT ![job_id] = [Goto(p) EXCEPT !.n = n, !.k = 0]]
                   \/ \E p \in ins.ex : task' = [task EXCEPT ![job_id] = Leave(p)]
                /\ UNCHANGED <<jobs, files>>
           [] ins.op = "page" ->
                /\ \/ /\ t.k < t.n
                      /\ IF job_id \in DOMAIN jobs
                           THEN /\ jobs' = [jobs EXCEPT ![job_id][ins.f] = PageProgress(t.k + ins.v, t.n)]
                                /\ task' = [task EXCEPT ![job_id] = [Goto(t.at) EXCEPT !.k = t.k + 1]]
                           ELSE /\ jobs' = jobs
                                /\ task' = [task EXCEPT ![job_id] = KeyError]
                   \/ /\ t.k >= 1
                      /\ \E p \in ins.ex : task' = [task EXCEPT ![job_id] = Leave(p)]
                      /\ jobs' = jobs
                   \/ /\ t.k = t.n
                      /\ \E p \in ins.nx : task' = [task EXCEPT ![job_id] = Leave(p)]
                      /\ jobs' = jobs
                /\ files' = files
           [] ins.op = "ret" ->
                /\ task' = [task EXCEPT ![job_id] =
                              [t EXCEPT !.pc = "returned", !.result = ins.v, !.at = 0,
                                        !.won = IF ins.v = "True" THEN ins.m ELSE None,
                                        !.tried = tried1]]
                /\ UNCHANGED <<jobs, files>>
           [] ins.op = "tail" ->
                /\ task' = [task EXCEPT ![job_id] = [t EXCEPT !.conv = ins.v, !.at = 1]]
                /\ UNCHANGED <<jobs, files>>
  /\ UNCHANGED <<file_hash_mapping, next_id, uploads, running, resp, unbound, deleting, call>>

\* ------------------------------------------------------ DELETE /jobs/{id}
\* the converted file is removed when it exists and the job is deleted;
\* asyncio.create_task then raises in the handler's worker thread (there is
\* no running loop), so no sweep is started
delete_job(jobId) ==
  /\ jobId \in DOMAIN jobs
  /\ files' = files \ {jobs[jobId].converted_path}
  /\ jobs' = Remove(jobs, jobId)
  /\ UNCHANGED <<file_hash_mapping, next_id, uploads, task, running, resp, unbound, deleting, call>>

\* ------------------------------- the handlers that run in worker threads
\* get_status, download_file and delete_job are plain functions: Starlette
\* runs each call in a worker thread, so the event loop and the converters
\* run between any two of their statements.  The handler holds the dict that
\* jobs.get returned: when the job is deleted meanwhile it goes on reading
\* that dict, which call.job then holds.

\* the response of a handler that raised HTTPException(status_code = code)
HTTPException(op, jobId, code) ==
  [NoCall EXCEPT !.op = op, !.jobId = jobId, !.code = code]

\* job[field] for the dict the handler holds
JobField(field) ==
  IF call.job # << >> THEN call.job[1][field] ELSE jobs[call.jobId][field]

\* GET /status/{jobId}, lines 419-423: 404 for an unknown id, else the
\* first read of job["status"]
get_status(jobId) ==
  /\ call.pc = "done"
  /\ call' = IF jobId \notin DOMAIN jobs
               THEN HTTPException("status", jobId, 404)
               ELSE [NoCall EXCEPT !.op = "status", !.jobId = jobId, !.pc = "progress",
                                   !.status = jobs[jobId].status]
  /\ UNCHANGED <<jobs, file_hash_mapping, files, next_id, uploads, task, running, resp,
                 unbound, deleting>>

\* line 424: job["progress"]
get_status_progress ==
  /\ call.op = "status" /\ call.pc = "progress"
  /\ call' = [call EXCEPT !.progress = JobField("progress"), !.pc = "downloadUrl"]
  /\ UNCHANGED <<jobs, file_hash_mapping, files, next_id, uploads, task, running, resp,
                 unbound, deleting>>

\* line 425: job["status"] is read again for the download URL
get_status_downloadUrl ==
  /\ call.op = "status" /\ call.pc = "downloadUrl"
  /\ call' = [call EXCEPT !.downloadUrl = IF JobField("status") = "completed"
                                            THEN "/download/" \o ToString(call.jobId)
                                            ELSE None,
                          !.pc = "error"]
  /\ UNCHANGED <<jobs, file_hash_mapping, files, next_id, uploads, task, running, resp,
                 unbound, deleting>>

\* lines 426-430: error, conversion_method and warning are read and the
\* response returned
get_status_return ==
  /\ call.op = "status" /\ call.pc = "error"
  /\ call' = [call EXCEPT !.error = JobField("error"),
                          !.conversion_method = JobField("conversion_method"),
                          !.warning = JobField("warning"),
                          !.code = 200, !.job = << >>, !.pc = "done"]
  /\ UNCHANGED <<jobs, file_hash_mapping, files, next_id, uploads, task, running, resp,
                 unbound, deleting>>

\* the download handler without its status test (lines 438-439 left out):
\* what C13 rests on
download_file_NoStatusTest(jobId) ==
  /\ call.pc = "done"
  /\ call' = IF jobId \notin DOMAIN jobs THEN HTTPException("download", jobId, 404)
             ELSE IF jobs[jobId].converted_path \notin files
                    THEN HTTPException("download", jobId, 404)
             ELSE [NoCall EXCEPT !.op = "download", !.jobId = jobId, !.pc = "send",
                                 !.status = jobs[jobId].status, !.job = <<jobs[jobId]>>]
  /\ UNCHANGED <<jobs, file_hash_mapping, files, next_id, uploads, task, running, resp,
                 unbound, deleting>>

\* GET /download/{jobId}, lines 434-442: the three checks; the status of a
\* completed job no longer changes, so they are one step
download_file(jobId) ==
  /\ call.pc = "done"
  /\ call' = IF jobId \notin DOMAIN jobs THEN HTTPException("download", jobId, 404)
             ELSE IF jobs[jobId].status # "completed" THEN HTTPException("download", jobId, 400)
             ELSE IF jobs[jobId].converted_path \notin files
                    THEN HTTPException("download", jobId, 404)
             ELSE [NoCall EXCEPT !.op = "download", !.jobId = jobId, !.pc = "send",
                                 !.status = jobs[jobId].status, !.job = <<jobs[jobId]>>]
  /\ UNCHANGED <<jobs, file_hash_mapping, files, next_id, uploads, task, running, resp,
                 unbound, deleting>>

\* lines 461-465: FileResponse sends the file; when the file has been
\* removed since the check it raises and the client gets a 500
download_file_send ==
  /\ call.op = "download" /\ call.pc = "send"
  /\ call' = [call EXCEPT !.code = IF call.job[1].converted_path \in files THEN 200 ELSE 500,
                          !.job = << >>, !.pc = "done"]
  /\ UNCHANGED <<jobs, file_hash_mapping, files, next_id, uploads, task, running, resp,
                 unbound, deleting>>

\* a delete that answers 200 for an id that is not in the store: what C14
\* rests on
delete_job_not_found_Ok(jobId) ==
  /\ call.pc = "done"
  /\ jobId \notin DOMAIN jobs
  /\ call' = HTTPException("delete", jobId, 200)
  /\ UNCHANGED <<jobs, file_hash_mapping, files, next_id, uploads, task, running, resp,
                 unbound, deleting>>

\* DELETE /jobs/{jobId} with an id that is not in the store, lines 495-497
delete_job_not_found(jobId) ==
  /\ call.pc = "done"
  /\ jobId \notin DOMAIN jobs
  /\ call' = HTTPException("delete", jobId, 404)
  /\ UNCHANGED <<jobs, file_hash_mapping, files, next_id, uploads, task, running, resp,
                 unbound, deleting>>

\* DELETE /jobs/{jobId} in its worker thread, lines 495-505: the converted
\* file is removed when it exists
delete_job_remove_file(jobId) ==
  /\ jobId \in DOMAIN jobs
  /\ jobId \notin deleting
  /\ files' = files \ {jobs[jobId].converted_path}
  /\ deleting' = deleting \cup {jobId}
  /\ UNCHANGED <<jobs, file_hash_mapping, next_id, uploads, task, running, resp, unbound, call>>

\* line 508: del jobs[jobId]; line 511 then raises (no running loop in the
\* worker thread), no sweep is started
delete_job_del(jobId) ==
  /\ jobId \in deleting
  /\ jobs' = Remove(jobs, jobId)
  /\ deleting' = deleting \ {jobId}
  /\ call' = IF call.op = "status" /\ call.pc # "done" /\ call.jobId = jobId
               THEN [call EXCEPT !.job = <<jobs[jobId]>>]
               ELSE call
  /\ UNCHANGED <<file_hash_mapping, files, next_id, uploads, task, running, resp, unbound>>

\* ------------------------------------------------------------ the sweeper
\* a sweep without the is_used test (lines 256-262 left out): what C12
\* rests on
cleanup_unused_files_NoUseTest ==
  /\ running = 0
  /\ file_hash_mapping # << >>
  /\ files' = files \ { file_hash_mapping[h].upload_path : h \in DOMAIN file_hash_mapping }
  /\ file_hash_mapping' = << >>
  /\ UNCHANGED <<jobs, next_id, uploads, task, running, resp, unbound, deleting, call>>

\* cleanup_unused_files, run by the hourly job and by GET /cleanup: it has
\* no await, so it is one step of the event loop
cleanup_unused_files ==
  LET files_to_remove == { h \in DOMAIN file_hash_mapping :
                             ~ \E j \in DOMAIN jobs : jobs[j].file_hash = h }
  IN  /\ running = 0
      /\ files' = files \ { file_hash_mapping[h].upload_path : h \in files_to_remove }
      /\ file_hash_mapping' = [h \in DOMAIN file_hash_mapping \ files_to_remove |-> file_hash_mapping[h]]
      /\ UNCHANGED <<jobs, next_id, uploads, task, running, resp, unbound, deleting, call>>

\* ------------------------------------------------------------ next / spec
\* POST /convert with content that is in file_hash_mapping: at most limit
\* accepted requests, inputs from the given sets
Reused(limit, contents, filenames, pairs) ==
  \E c \in contents, f \in filenames, p \in pairs : ConvertReuse(limit, c, f, p)

\* POST /convert with content that is not in file_hash_mapping
Stored(limit, contents, filenames, pairs) ==
  \E c \in contents, f \in filenames, p \in pairs : ConvertStore(limit, c, f, p)

Rejected ==
  \E c \in Contents, f \in Filenames, p \in RequestPairs : ConvertRejected(c, f, p)

\* the suspended part of POST /convert
Upload ==
  \/ \E j \in JobIds : UploadWrite(j)
  \/ \E j \in JobIds : ConvertFinish(j)

\* the background task up to and including the lookup, deletion, the sweeper
Background ==
  \/ \E j \in JobIds : BeginConvert(j)
  \/ \E j \in JobIds : InitialProgress(j)
  \/ \E j \in JobIds : Lookup(j)
  \/ \E j \in JobIds : ExceptStatus(j)
  \/ \E j \in JobIds : ExceptError(j)
  \/ \E j \in JobIds : delete_job(j)
  \/ cleanup_unused_files

\* the converter and what convert_file does after it
Conversion ==
  \/ \E j \in JobIds : RunInExecutor(j)
  \/ \E j \in JobIds : ConverterStep(j)
  \/ \E j \in JobIds : CompletedStatus(j)
  \/ \E j \in JobIds : CompletedProgress(j)
  \/ \E j \in JobIds : CompletedPath(j)
  \/ \E j \in JobIds : FailedStatus(j)
  \/ \E j \in JobIds : FailedError(j)
  \/ \E j \in JobIds : ConverterRaised(j)

Next ==
  \/ Reused(MaxJobs, Contents, Filenames, RequestPairs)
  \/ Stored(MaxJobs, Contents, Filenames, RequestPairs)
  \/ Rejected \/ Upload \/ Background

NextChain ==
  \/ Stored(MaxChainJobs, ChainContents, ChainFilenames, ChainPairs)
  \/ Upload \/ Background \/ Conversion

NextDedup ==
  \/ Reused(MaxDedupJobs, Contents, Filenames, RequestPairs)
  \/ Stored(MaxDedupJobs, Contents, Filenames, RequestPairs)
  \/ Upload

\* the service as the class defines it
Spec == Init /\ [][Next]_vars

\* the service with every converter of converter_map bound: valid requests
\* that store their upload, then everything the background task does (the
\* reuse branch of the upload cache is in Spec and SpecDedup)
SpecChain == InitChain /\ [][NextChain]_vars

\* the upload cache alone: POST /convert handlers, before any background
\* task runs and with no deletion
SpecDedup == Init /\ [][NextDedup]_vars

\* two contents under one name: submissions, the background tasks of the
\* service as the class defines it, deletion and the sweeper
SweepContents == {"A", "B"}
SweepFilenames == { <<"a", ".", "x">> }
SweepPairs == { <<"pdf", "docx">> }

NextSweep ==
  \/ Reused(MaxSweepJobs, SweepContents, SweepFilenames, SweepPairs)
  \/ Stored(MaxSweepJobs, SweepContents, SweepFilenames, SweepPairs)
  \/ Upload \/ Background

SpecSweep == Init /\ [][NextSweep]_vars

\* the requests of a polling client; ids holds an id that no job has
Polling(ids) ==
  \/ \E j \in ids : get_status(j)
  \/ get_status_progress
  \/ get_status_downloadUrl
  \/ get_status_return
  \/ \E j \in ids : download_file(j)
  \/ download_file_send
  \/ \E j \in ids : delete_job_not_found(j)

\* DELETE /jobs/{id} statement by statement
Deletion ==
  \/ \E j \in JobIds : delete_job_remove_file(j)
  \/ \E j \in JobIds : delete_job_del(j)

\* convert_file up to and including the lookup
Dispatch ==
  \/ \E j \in JobIds : BeginConvert(j)
  \/ \E j \in JobIds : InitialProgress(j)
  \/ \E j \in JobIds : Lookup(j)
  \/ \E j \in JobIds : ExceptStatus(j)
  \/ \E j \in JobIds : ExceptError(j)

\* one PDF to DOCX job and one pair without a converter, with a client that
\* polls, downloads and deletes while the job is converted
ApiPairs == { <<"pdf", "docx">>, <<"AVI", "FLV">> }

NextApi ==
  \/ Stored(MaxApiJobs, ChainContents, ChainFilenames, ApiPairs)
  \/ Upload \/ Dispatch \/ Conversion
  \/ cleanup_unused_files
  \/ Deletion
  \/ Polling(1..(MaxApiJobs + 1))

SpecApi == InitChain /\ [][NextApi]_vars

\* every step of the background task of one job and of its upload
TaskStep(j) ==
  \/ UploadWrite(j) \/ ConvertFinish(j)
  \/ BeginConvert(j) \/ InitialProgress(j) \/ Lookup(j) \/ ExceptStatus(j) \/ ExceptError(j)
  \/ RunInExecutor(j) \/ ConverterStep(j)
  \/ CompletedStatus(j) \/ CompletedProgress(j) \/ CompletedPath(j)
  \/ FailedStatus(j) \/ FailedError(j) \/ ConverterRaised(j)

\* SpecChain with a fair scheduler: the event loop runs every background
\* task that can run, and every converter call returns
FairChain == SpecChain /\ \A j \in JobIds : WF_vars(TaskStep(j))

\* ------------------------------------------------------- the thread pool
\* more requests than the pool has workers, one content and one pair that
\* has a converter; every background task runs up to run_in_executor and
\* the converters never return, which is the state the pool bound is about
PoolPairs == { <<"pdf", "docx">> }

NextPool ==
  \/ Reused(MaxPoolJobs, ChainContents, ChainFilenames, PoolPairs)
  \/ Stored(MaxPoolJobs, ChainContents, ChainFilenames, PoolPairs)
  \/ Upload
  \/ \E j \in JobIds : BeginConvert(j)
  \/ \E j \in JobIds : InitialProgress(j)
  \/ \E j \in JobIds : Lookup(j)
  \/ \E j \in JobIds : RunInExecutor(j)

SpecPool == InitChain /\ [][NextPool]_vars

\* ------------------------------------------- a second call of convert_file
\* ConversionService.convert_file is a public coroutine that takes the job
\* id and the job store; main.py calls it once for a job.  Here a caller
\* calls it again, with the arguments of the first call, for a job whose
\* first call has returned: the body runs from its first statement.
convert_file_again(job_id) ==
  /\ AtPc(job_id, "done")
  /\ job_id \in DOMAIN jobs
  /\ jobs[job_id].status \in {"completed", "error"}
  /\ task' = [task EXCEPT ![job_id] =
                 NewTask(jobs[job_id].upload_path, jobs[job_id].converted_path,
                         jobs[job_id].source_format, jobs[job_id].destination_format)]
  /\ UNCHANGED <<jobs, file_hash_mapping, files, next_id, uploads, running, resp, unbound,
                 deleting, call>>

NextAgain ==
  \/ Stored(MaxChainJobs, ChainContents, ChainFilenames, ChainPairs)
  \/ Upload \/ Background \/ Conversion
  \/ \E j \in JobIds : convert_file_again(j)

SpecAgain == InitChain /\ [][NextAgain]_vars

\* ------------------------------------------------------------- properties
Terminal == {"completed", "error"}
StatusRank(st) == CASE st = "pending" -> 0 [] st = "converting" -> 1 [] OTHER -> 2

\* C1: under fair scheduling, a job that is pending or converting does not
\* stay so forever: its status becomes completed or error (or the job is
\* deleted by a client before that).
C1_EventuallyTerminal ==
  \A j \in JobIds :
    (j \in DOMAIN jobs /\ jobs[j].status \notin Terminal)
      ~> (j \notin DOMAIN jobs \/ jobs[j].status \in Terminal)

C1_Witness ==
  \E j \in DOMAIN jobs : jobs[j].status \in Terminal /\ task[j].pc = "done"

C3_StatusForward ==
  [][\A j \in DOMAIN jobs \cap DOMAIN jobs' :
        /\ StatusRank(jobs'[j].status) >= StatusRank(jobs[j].status)
        /\ (jobs[j].status \in Terminal => jobs'[j].status = jobs[j].status)]_vars

C3_Witness ==
  \E j \in DOMAIN jobs : jobs[j].status = "completed" /\ jobs[j].progress = 100
                            /\ task[j].pc = "done"

\* the files stored under uploads/ for one hash
StoredUploads(stored, file_hash) ==
  { f \in stored : f.dir = UPLOAD_DIR /\ f.name[1] = file_hash }

\* C4: a POST /convert that comes after another one with the same content has
\* returned gets its own job id, and its job has the same file_hash and the
\* same upload_path as the earlier job; file_hash_mapping has the entry and
\* exactly one file is stored for the content.
C4_SequentialUploadsShare ==
  [][\A j2 \in (DOMAIN jobs' \ DOMAIN jobs) \ DOMAIN uploads :
       \A j1 \in DOMAIN jobs :
         jobs[j1].file_hash = jobs'[j2].file_hash =>
           /\ j1 # j2
           /\ resp'.jobId = j2
           /\ jobs'[j1].upload_path = jobs'[j2].upload_path
           /\ jobs'[j2].file_hash \in DOMAIN file_hash_mapping'
           /\ Cardinality(StoredUploads(files', jobs'[j2].file_hash)) = 1]_vars

\* C5: whatever the interleaving of the POST /convert handlers, no content
\* is stored in two files under uploads/.
C5_OneFilePerContent ==
  \A c \in Contents : Cardinality(StoredUploads(files, calculate_file_hash(c))) <= 1

\* C6: a job whose converter returned a falsy value or raised is never
\* completed, and once its background task has ended its status is error
\* and its error message is not empty.
C6_AllFailedIsError ==
  \A j \in DOMAIN jobs \cap DOMAIN task :
    task[j].result \in {"False", "raised"} =>
      /\ jobs[j].status # "completed"
      /\ task[j].pc = "done" => (jobs[j].status = "error" /\ jobs[j].error \notin {None, ""})

C6_Witness ==
  \E j \in DOMAIN jobs \cap DOMAIN task :
    /\ task[j].pc = "done"
    /\ task[j].result = "False"
    /\ Len(task[j].tried) >= 2
    /\ jobs[j].status = "error"
    /\ jobs[j].error = "Conversion failed"

C9_UnsupportedRejected ==
  [][/\ \A j \in DOMAIN jobs' \ DOMAIN jobs :
          supported_conversion(jobs'[j].source_format, jobs'[j].destination_format)
     /\ \A j \in DOMAIN uploads' \ DOMAIN uploads :
          supported_conversion(uploads'[j].source_format, uploads'[j].destination_format)
     /\ (resp' # resp /\ Len(resp'.pair) = 2
           /\ ~ supported_conversion(resp'.pair[1], resp'.pair[2])) =>
          /\ resp'.code \in {400, 413}
          /\ resp'.jobId = 0
          /\ UNCHANGED <<jobs, uploads, task, next_id, file_hash_mapping, files>>]_vars

C9_Witness ==
  /\ resp.code = 400
  /\ resp.jobId = 0
  /\ resp.pair = <<"FOO", "BAR">>
  /\ jobs # << >>

\* C10: every job was created for a pair that converter_map has a converter
\* for.
C10_EveryJobHasConverter ==
  \A j \in DOMAIN jobs :
    converter_map_get(jobs[j].source_format, jobs[j].destination_format) # None

\* the number of jobs of a store that reference a hash
Refs(store, file_hash) ==
  Cardinality({ j \in DOMAIN store : store[j].file_hash = file_hash })

\* C11: a step that deletes a job leaves no converted file of it and lowers
\* the number of jobs referencing its hash by one; a sweep removes, for every
\* mapped hash that no job references, the mapping entry and every file
\* stored under uploads/ for that hash (but for the file of a request that
\* is still being handled).
C11_DeleteThenSweep ==
  [][/\ \A j \in DOMAIN jobs \ DOMAIN jobs' :
          /\ jobs[j].converted_path \notin files'
          /\ Refs(jobs', jobs[j].file_hash) = Refs(jobs, jobs[j].file_hash) - 1
     /\ (DOMAIN file_hash_mapping' # DOMAIN file_hash_mapping
           /\ DOMAIN file_hash_mapping' \subseteq DOMAIN file_hash_mapping) =>
          \A h \in DOMAIN file_hash_mapping :
            Refs(jobs, h) = 0 =>
              /\ h \notin DOMAIN file_hash_mapping'
              /\ StoredUploads(files', h) \subseteq
                   { uploads[u].upload_path : u \in DOMAIN uploads }]_vars

\* C12: no step removes the upload file or the file_hash_mapping entry of a
\* job that is in the store and pending or converting.
C12_SweepSparesActiveJobs ==
  [][\A j \in DOMAIN jobs :
       jobs[j].status \in {"pending", "converting"} =>
         /\ jobs[j].upload_path \in files => jobs[j].upload_path \in files'
         /\ jobs[j].file_hash \in DOMAIN file_hash_mapping =>
              jobs[j].file_hash \in DOMAIN file_hash_mapping']_vars

\* the upload of a deleted job has been swept while another job, pending or
\* converting, still has its own
C12_Witness ==
  /\ \E i \in DOMAIN task \ DOMAIN jobs :
        /\ task[i].pc = "queued"
        /\ task[i].input_path \notin files
        /\ calculate_file_hash("B") \notin DOMAIN file_hash_mapping
  /\ \E j \in DOMAIN jobs :
        /\ jobs[j].status \in {"pending", "converting"}
        /\ jobs[j].upload_path \in files
        /\ jobs[j].file_hash \in DOMAIN file_hash_mapping

\* C13: the download handler answers 400 for a job that is not completed and
\* 404 for a completed job whose converted file does not exist, it goes on
\* to send the file only for a completed job whose file exists, a 200 is
\* only ever the answer for a job seen completed, and no download step
\* changes the job store.
C13_DownloadOnlyCompleted ==
  [][/\ (call' # call /\ call.pc = "done" /\ call'.op = "download") =>
          LET j == call'.jobId
          IN  /\ jobs' = jobs
              /\ (j \in DOMAIN jobs /\ jobs[j].status # "completed") =>
                    (call'.code = 400 /\ call'.pc = "done")
              /\ (j \in DOMAIN jobs /\ jobs[j].status = "completed"
                     /\ jobs[j].converted_path \notin files) =>
                    (call'.code = 404 /\ call'.pc = "done")
              /\ call'.pc = "send" =>
                    (j \in DOMAIN jobs /\ jobs[j].status = "completed"
                       /\ jobs[j].converted_path \in files)
     /\ (call' # call /\ call'.op = "download" /\ call'.code = 200) =>
          (call.pc = "send" /\ call.status = "completed" /\ jobs' = jobs)]_vars

\* a completed job whose converted file is gone (its DELETE is under way)
\* was asked for and the answer was 404
C13_Witness ==
  /\ call.op = "download" /\ call.pc = "done" /\ call.code = 404
  /\ call.jobId \in DOMAIN jobs
  /\ jobs[call.jobId].status = "completed"
  /\ jobs[call.jobId].converted_path \notin files

\* C14: a GET /status or DELETE /jobs request for an id that is not in the
\* job store is answered 404 and changes neither the job store nor
\* file_hash_mapping nor the files.
C14_UnknownIdNotFound ==
  [][(call' # call /\ call.pc = "done" /\ call'.op \in {"status", "delete"}
        /\ call'.jobId \notin DOMAIN jobs) =>
       /\ call'.code = 404
       /\ call'.pc = "done"
       /\ UNCHANGED <<jobs, file_hash_mapping, files>>]_vars

\* the DELETE of a job that was created and has already been deleted was
\* answered 404
C14_Witness ==
  /\ call.op = "delete" /\ call.pc = "done" /\ call.code = 404
  /\ call.jobId \in 1..next_id
  /\ call.jobId \notin DOMAIN jobs
  /\ call.jobId \in DOMAIN task

\* C15: POST /convert with a filename that contains '..', '/' or '\' fails
\* validation and creates no job: in no state can the handler accept such a
\* request, neither by storing its upload nor by reusing a stored one.
C15_EscapingFilenameRejected ==
  \A content \in Contents, filename \in Filenames, pair \in RequestPairs :
    (HasDotDot(filename) \/ HasChar(filename, "/") \/ HasChar(filename, "\\")) =>
      /\ Validate(content, filename, pair[1], pair[2]) # 200
      /\ ~ ENABLED (\/ ConvertStore(MaxJobs, content, filename, pair)
                    \/ ConvertReuse(MaxJobs, content, filename, pair))

Carries(message, reason) == message = reason

C21_NoErrorWhileRunning ==
  (call.op = "status" /\ call.pc = "done" /\ call.code = 200
     /\ call.status \in {"pending", "converting"}) =>
    call.error = None

C23_ReinvokeIsNoOp ==
  [][\A j \in DOMAIN task \cap DOMAIN jobs :
       (/\ task[j].pc = "queued"
        /\ jobs[j].status \in {"completed", "error"}
        /\ task'[j] # task[j]) =>
         /\ j \in DOMAIN jobs'
         /\ jobs'[j] = jobs[j]
         /\ task'[j].pc = "done"]_vars

C25_LookupSucceeds ==
  /\ \A i \in 1..Len(converter_map_items) :
       LET source == converter_map_items[i][1]
           destination == converter_map_items[i][2]
           r == get_converter_method(unbound, source, destination)
       IN  /\ ~ r.raised
           /\ r.value = converter_map_get(source, destination)
           /\ r.value # None
  /\ \A j \in DOMAIN task :
       (/\ task[j].pc = "except" /\ task[j].chain = None
        /\ converter_map_get(task[j].source_format, task[j].destination_format) # None) =>
         FALSE

\* C26: a rejected POST /convert has no effect: the step that answers 400
\* or 413 leaves the job store, file_hash_mapping, the files and the
\* pending uploads as they are, and creates no background task.
C26_RejectedHasNoEffect ==
  [][(resp' # resp /\ resp'.code \in {400, 413}) =>
       /\ resp'.jobId = 0
       /\ UNCHANGED <<jobs, file_hash_mapping, files, uploads, task, next_id>>]_vars

\* a request for a supported pair was rejected for its file name while a
\* job and its upload were there to be changed
C26_Witness ==
  /\ resp.code = 400
  /\ Len(resp.pair) = 2
  /\ supported_conversion(resp.pair[1], resp.pair[2])
  /\ jobs # << >>
  /\ file_hash_mapping # << >>
  /\ files # {}

C29_JobsReferToMapping ==
  \A j \in DOMAIN jobs :
    /\ jobs[j].file_hash \in DOMAIN file_hash_mapping
    /\ jobs[j].upload_path = file_hash_mapping[jobs[j].file_hash].upload_path

\* C30: a deleted job never comes back: an id whose background task exists
\* and that is not a key of the job store is not a key after any step,
\* whatever its background task or its converter writes.
C30_DeletedStaysDeleted ==
  [][\A j \in DOMAIN task : j \notin DOMAIN jobs => j \notin DOMAIN jobs']_vars

\* the background task of a deleted job tried to write to the job and ended
\* with the KeyError, and the job is not in the store
C30_Witness ==
  \E j \in DOMAIN task \ DOMAIN jobs : task[j].pc = "crashed"
====
